---- MODULE Spec2Model ----
(***************************************************************************)
(* Model of the retrieval core of kalki-gpt:                               *)
(*   - KalkiRAGChain (src/src/rag_chain.py): initialize, rebuild_index,    *)
(*     ask / fast_search, run by a writer thread and a reader thread that  *)
(*     share the one instance app.py caches with st.cache_resource;        *)
(*   - TextProcessor.chunk_text / _find_break_point                        *)
(*     (src/src/text_processor.py).                                        *)
(* Strings are sequences of symbols; a symbol stands for one character or  *)
(* for one run of letters ("dharma"), so that split, strip, lower and the  *)
(* substring test are computed and not assumed.                            *)
(***************************************************************************)
EXTENDS Integers, Sequences, FiniteSets, TLC

\* ------------------------------------------------------------------ bounds
MaxBuilds == 2       \* builds (initialize / rebuild_index calls) per run
MaxAsks == 2         \* ask calls per run
MaxChunks == 5       \* chunks recorded per chunk_text call; later ones are counted only
MaxSpecials == 2     \* non-letter characters placed in a generated unit text
MaxCleanLen == 4      \* characters of a string given to clean_text
MaxNameLen == 3      \* letter runs of a filename given to the collection inference
MaxFiles == 3        \* JSON files of a downloaded archive
MaxConvFiles == 2    \* files of a mapping given to the conversion
MaxItems == 2        \* elements of a JSON list
MaxRows == 3         \* rows of an embedding matrix given to search_similar
MaxK == 2            \* the k given to search_similar
MaxSaves == 2        \* save_embeddings calls per run
MaxSavedTexts == 2   \* texts given to one save_embeddings call
MaxTextLen == 3      \* words, spaces and signs of a text given to detect_language
MaxMatches == 6      \* matching units fast_search sorts in one call

\* ------------------------------------------------------- program constants
CHUNK_SIZE == 512
CHUNK_OVERLAP == 50
BackWindow == 100
FwdWindow == 100
SpaceWindow == 50
MaxResults == 5
SIMILARITY_THRESHOLD == 30   \* Config.SIMILARITY_THRESHOLD = 0.3, in hundredths
EMBEDDING_MODEL == "sentence-transformers/paraphrase-multilingual-MiniLM-L12-v2"

\* ------------------------------------------------------------ string model
Min(a, b) == IF a < b THEN a ELSE b
Max(a, b) == IF a > b THEN a ELSE b

Whitespace == {" ", "\n"}

\* str.lower(): the symbols with an upper-case letter and their lower-case form
LowerSym(c) ==
    CASE c = "What" -> "what"
      [] c = "It" -> "it"
      [] c = "Follow" -> "follow"
      [] c = "Dharma" -> "dharma"
      [] c = "Ramcharit" -> "ramcharit"
      [] c = "Valmiki" -> "valmiki"
      [] c = "Ramayana" -> "ramayana"
      [] c = "Bhagavad" -> "bhagavad"
      [] c = "Gita" -> "gita"
      [] c = "Mahabharata" -> "mahabharata"
      [] c = "Other" -> "other"
      [] c = "Texts" -> "texts"
      [] c = "All" -> "all"
      [] c = "Sundarkand" -> "sundarkand"
      [] c = "Rig" -> "rig"
      [] c = "Krishna" -> "krishna"
      [] OTHER -> c

Lower(s) == [i \in 1..Len(s) |-> LowerSym(s[i])]

\* str.strip(): drop leading and trailing whitespace
RECURSIVE LStrip(_)
LStrip(s) == IF s # <<>> /\ Head(s) \in Whitespace THEN LStrip(Tail(s)) ELSE s

RECURSIVE RStrip(_)
RStrip(s) ==
    IF s # <<>> /\ s[Len(s)] \in Whitespace THEN RStrip(SubSeq(s, 1, Len(s) - 1)) ELSE s

Strip(s) == RStrip(LStrip(s))

\* str.split(): the maximal runs of non-whitespace symbols, in order
RECURSIVE SplitFrom(_, _, _)
SplitFrom(s, i, cur) ==
    IF i > Len(s)
    THEN IF cur = <<>> THEN <<>> ELSE <<cur>>
    ELSE IF s[i] \in Whitespace
         THEN (IF cur = <<>> THEN <<>> ELSE <<cur>>) \o SplitFrom(s, i + 1, <<>>)
         ELSE SplitFrom(s, i + 1, Append(cur, s[i]))

Split(s) == SplitFrom(s, 1, <<>>)

\* `sub in s` on strings
Contains(s, sub) ==
    \E i \in 0..(Len(s) - Len(sub)) : SubSeq(s, i + 1, i + Len(sub)) = sub

SeqToSet(s) == {s[i] : i \in 1..Len(s)}

\* --------------------------------------------------------- corpus source
\* The values load_all_scripture_data can return: a mapping filename ->
\* parsed JSON value in insertion order, or the empty mapping.  A JSON value
\* is [kind |-> "list", items], [kind |-> "dict", fields] or
\* [kind |-> "scalar", str].
RamFile ==
    [name |-> <<"ramcharit", "manas", "_", "1">>,
     json |-> [kind |-> "list",
               items |-> << [kind |-> "dict",
                             fields |-> [hindi |-> <<"hi:dharm", " ", "hi:ki", " ", "hi:raksha", "hi:danda">>,
                                         english |-> <<"It", " ", "is", " ", "our", " ", "duty", " ",
                                                       "to", " ", "protect", " ", "dharma", ".">>]] >>]]

ValmikiFile ==
    [name |-> <<"valmiki", "_", "1">>,
     json |-> [kind |-> "list",
               items |-> << [kind |-> "dict",
                             fields |-> [hindi |-> <<"hi:satya", " ", "hi:aur", " ", "hi:dharm", "hi:danda">>,
                                         english |-> <<"Follow", " ", "truth", " ", "and", " ",
                                                       "righteousness", ".">>]] >>]]

GitaFile ==
    [name |-> <<"gita">>,
     json |-> [kind |-> "dict",
               fields |-> [verse |-> <<"karma", " ", "yoga">>, chapter |-> <<"2">>]]]

NotesFile ==
    [name |-> <<"notes">>, json |-> [kind |-> "scalar", str |-> <<" ", "dharma", " ">>]]

EmptyData == <<>>
DataA == <<RamFile, ValmikiFile>>
DataB == <<GitaFile, NotesFile>>
RawDataChoices == {EmptyData, DataA, DataB}

\* ------------------------------------------------------------------ state
VARIABLES
    is_initialized,  \* KalkiRAGChain.is_initialized
    texts,           \* KalkiRAGChain.texts: None or a list of references to unit dicts
    heap,            \* the unit dicts, by reference
    cache,           \* st.cache_data entry of load_all_scripture_data
    builds,          \* number of initialize / rebuild_index calls started
    wpc, wop, wret,  \* writer thread: position, running operation, last return value
    raw_data,        \* writer local: raw_data of initialize
    processed_texts, \* writer local: processed_texts of _simple_process_texts
    pre_texts,       \* the units self.texts held when rebuild_index was entered
    pre_state,       \* what the caller saw when rebuild_index was entered
    asks,            \* number of ask calls started
    rpc,             \* reader thread: position
    query,           \* reader local: the arguments of ask
    r_texts, r_i,    \* reader local: the list fast_search iterates and the loop index
    results,         \* reader local: results of fast_search
    response,        \* the last value ask returned
    seen_raw,        \* TRUE once fast_search has read a unit without search_text
    unit,            \* chunk_text: the unit's content: has it a 'text' field, and the text
    cpc,             \* chunk_text: position
    start, chunk_id, \* chunk_text locals
    chunks,          \* chunk_text local: the chunks appended so far (the first MaxChunks)
    overflow,        \* TRUE once a chunk was appended beyond the recorded ones
    fpc,             \* the function applied on its own (clean_text, the loaders): position
    arg, out,        \* its argument and the value it returned
    embeddings_file, \* models/embeddings/text_embeddings.npy
    metadata_file,   \* models/embeddings/embedding_metadata.json
    index_file,      \* models/embeddings/faiss_index.bin
    model_name,      \* Config.EMBEDDING_MODEL of the running process
    saves            \* number of save_embeddings calls started

ovars == <<is_initialized, texts, heap, cache, builds, wpc, wop, wret, raw_data,
           processed_texts, pre_texts, pre_state, asks, rpc, query, r_texts, r_i, results,
           response, seen_raw>>
cvars == <<unit, cpc, start, chunk_id, chunks, overflow>>
pvars == <<embeddings_file, metadata_file, index_file, model_name, saves>>
fvars == <<fpc, arg, out, pvars>>
vars == <<ovars, cvars, fvars>>
wvars == <<wpc, wop, wret, raw_data, processed_texts, pre_texts, pre_state, builds>>
rvars == <<asks, rpc, query, r_texts, r_i, results, response, seen_raw>>

None == << -1 >>
NoCache == << [name |-> <<>>, json |-> [kind |-> "none"]] >>
NoResponse == [kind |-> "none"]
NoPreState == [stats |-> [status |-> "none"], corpus |-> NoCache, wop |-> "none", wret |-> "none"]
NoFile == [kind |-> "missing"]

\* ----------------------------------------------------- collection inference
\* `any(word in filename_lower for word in words)`
AnyWordIn(filename, words) == \E w \in words : Contains(Lower(filename), w)

_get_collection_name(filename) ==
    IF AnyWordIn(filename, {<<"ramcharit", "manas">>, <<"ramcharit">>}) THEN "ramcharitmanas"
    ELSE IF AnyWordIn(filename, {<<"valmiki">>, <<"valmiki", "ramayana">>}) THEN "valmiki_ramayana"
    ELSE IF AnyWordIn(filename, {<<"bhagavad">>, <<"gita">>}) THEN "bhagavad_gita"
    ELSE IF AnyWordIn(filename, {<<"ramayana">>}) THEN "ramayana"
    ELSE IF AnyWordIn(filename, {<<"mahabharata">>}) THEN "mahabharata"
    ELSE "other_texts"

_get_collection_display_name(filename) ==
    IF AnyWordIn(filename, {<<"ramcharit", "manas">>, <<"ramcharit">>}) THEN <<"Ramcharit", "manas">>
    ELSE IF AnyWordIn(filename, {<<"valmiki">>, <<"valmiki", "ramayana">>}) THEN <<"Valmiki", " ", "Ramayana">>
    ELSE IF AnyWordIn(filename, {<<"bhagavad">>, <<"gita">>}) THEN <<"Bhagavad", " ", "Gita">>
    ELSE IF AnyWordIn(filename, {<<"ramayana">>}) THEN <<"Ramayana">>
    ELSE IF AnyWordIn(filename, {<<"mahabharata">>}) THEN <<"Mahabharata">>
    ELSE <<"Other", " ", "Texts">>

\* ------------------------------------------------------ _convert_data_format
Metadata(filename, idx, total) ==
    [collection |-> _get_collection_name(filename),
     collection_display |-> _get_collection_display_name(filename),
     source_file |-> filename, item_index |-> idx, total_items |-> total]

\* the units one file contributes, in order; none of them has search_text yet
ConvertFile(f) ==
    IF f.json.kind = "list"
    THEN [k \in 1..Len(f.json.items) |->
            [id |-> f.name \o <<"_", ToString(k - 1)>>,
             content |-> IF f.json.items[k].kind = "dict"
                         THEN f.json.items[k].fields
                         ELSE [text |-> f.json.items[k].str],
             metadata |-> Metadata(f.name, k - 1, Len(f.json.items)),
             has_search_text |-> FALSE, search_text |-> <<>>]]
    ELSE << [id |-> f.name,
             content |-> IF f.json.kind = "dict" THEN f.json.fields
                         ELSE [text |-> f.json.str],
             metadata |-> Metadata(f.name, 0, 1),
             has_search_text |-> FALSE, search_text |-> <<>>] >>

RECURSIVE _convert_data_format(_)
_convert_data_format(raw) ==
    IF raw = <<>> THEN <<>> ELSE ConvertFile(Head(raw)) \o _convert_data_format(Tail(raw))

\* ------------------------------------------------------ _simple_process_texts
SearchFields == <<"text", "english", "hindi", "content", "verse", "meaning">>

RECURSIVE JoinFields(_, _)
JoinFields(content, fs) ==
    IF fs = <<>> THEN <<>>
    ELSE (IF Head(fs) \in DOMAIN content /\ content[Head(fs)] # <<>>
          THEN content[Head(fs)] \o <<" ">> ELSE <<>>) \o JoinFields(content, Tail(fs))

SearchTextOf(content) == Lower(Strip(JoinFields(content, SearchFields)))

\* ------------------------------------------------- derived views of texts
TextsList == IF texts = None THEN <<>> ELSE texts

\* get_collections: collection_display -> count, over self.texts
get_collections ==
    LET names == {heap[TextsList[i]].metadata.collection_display : i \in 1..Len(TextsList)}
    IN [n \in names |->
          Cardinality({i \in 1..Len(TextsList) : heap[TextsList[i]].metadata.collection_display = n})]

\* filter_by_collection(collection_name): the references it returns
filter_by_collection(collection_name) ==
    SelectSeq(TextsList,
              LAMBDA r : Contains(Lower(heap[r].metadata.collection_display), Lower(collection_name))
                         \/ collection_name = <<"All", " ", "Texts">>)

\* get_system_stats (363-381): the fields that depend on the state
get_system_stats ==
    IF ~is_initialized THEN [status |-> "Not initialized"]
    ELSE [status |-> "Initialized", total_texts |-> Len(TextsList),
          collections |-> get_collections]

\* get_sample_questions: the collection-specific groups it adds
get_sample_questions ==
    {heap[TextsList[i]].metadata.collection : i \in 1..Len(TextsList)}
        \cap {"ramcharitmanas", "valmiki_ramayana"}

\* ----------------------------------------------------------- writer thread
WriterReturn(value) ==
    /\ wret' = value
    /\ wpc' = "idle"
    /\ raw_data' = <<>>
    /\ processed_texts' = <<>>

\* initialize(): entry (rag_chain.py 30-33)
initialize_call ==
    /\ wpc = "idle" /\ builds < MaxBuilds
    /\ builds' = builds + 1
    /\ wop' = "initialize" /\ wret' = "none" /\ wpc' = "load"
    /\ UNCHANGED <<is_initialized, texts, heap, cache, raw_data, processed_texts, pre_texts, pre_state>>
    /\ UNCHANGED <<rvars, cvars, fvars>>

\* rebuild_index(): is_initialized = False (352)
rebuild_index_call ==
    /\ wpc = "idle" /\ builds < MaxBuilds
    /\ builds' = builds + 1
    /\ is_initialized' = FALSE
    /\ pre_texts' = SeqToSet(TextsList)
    /\ pre_state' = [stats |-> get_system_stats, corpus |-> cache, wop |-> wop, wret |-> wret]
    /\ wop' = "rebuild_index" /\ wret' = "none" /\ wpc' = "clear_cache"
    /\ UNCHANGED <<texts, heap, cache, raw_data, processed_texts>>
    /\ UNCHANGED <<rvars, cvars, fvars>>

\* rebuild_index(): st.cache_data.clear() (355-358), then initialize(force_rebuild=True)
rebuild_index_clear ==
    /\ wpc = "clear_cache"
    /\ cache' = NoCache
    /\ wpc' = "load"
    /\ UNCHANGED <<is_initialized, texts, heap, builds, wop, wret, raw_data, processed_texts, pre_texts, pre_state>>
    /\ UNCHANGED <<rvars, cvars, fvars>>

\* initialize(): raw_data = get_all_scripture_data(); empty -> return False (35-40).
\* The loader is @st.cache_data: a cached value is returned as is.
initialize_load ==
    /\ wpc = "load"
    /\ \E r \in (IF cache = NoCache THEN RawDataChoices ELSE {cache}) :
         /\ cache' = r
         /\ IF r = <<>>
            THEN WriterReturn("False")
            ELSE /\ raw_data' = r /\ wpc' = "convert"
                 /\ UNCHANGED <<wret, processed_texts>>
    /\ UNCHANGED <<is_initialized, texts, heap, builds, wop, pre_texts, pre_state>>
    /\ UNCHANGED <<rvars, cvars, fvars>>

\* the conversion appending to the list self.texts already holds
initialize_convert_extend ==
    /\ wpc = "convert"
    /\ LET units == _convert_data_format(raw_data)
           refs == [k \in 1..Len(units) |-> builds * 10 + k]
       IN /\ texts' = TextsList \o refs
          /\ heap' = [r \in DOMAIN heap \cup SeqToSet(refs) |->
                        IF r \in SeqToSet(refs) THEN units[r - builds * 10] ELSE heap[r]]
    /\ \E raised \in BOOLEAN :
         IF raised THEN WriterReturn("False")
         ELSE /\ wpc' = "process" /\ processed_texts' = <<>>
              /\ UNCHANGED <<wret, raw_data>>
    /\ UNCHANGED <<is_initialized, cache, builds, wop, pre_texts, pre_state>>
    /\ UNCHANGED <<rvars, cvars, fvars>>

\* initialize(): self.texts = self._convert_data_format(raw_data) (43); the
\* logging that follows (44-45) may raise into the handler (58-61).
initialize_convert ==
    /\ wpc = "convert"
    /\ LET units == _convert_data_format(raw_data)
           refs == [k \in 1..Len(units) |-> builds * 10 + k]
       IN /\ texts' = refs
          /\ heap' = [r \in DOMAIN heap \cup SeqToSet(refs) |->
                        IF r \in SeqToSet(refs) THEN units[r - builds * 10] ELSE heap[r]]
    /\ \E raised \in BOOLEAN :
         IF raised THEN WriterReturn("False")
         ELSE /\ wpc' = "process" /\ processed_texts' = <<>>
              /\ UNCHANGED <<wret, raw_data>>
    /\ UNCHANGED <<is_initialized, cache, builds, wop, pre_texts, pre_state>>
    /\ UNCHANGED <<rvars, cvars, fvars>>

\* _simple_process_texts: one iteration of `for text in texts` (67-82): the
\* unit dict itself gets its search_text and is appended to the new list.
_simple_process_texts_item ==
    /\ wpc = "process" /\ Len(processed_texts) < Len(texts)
    /\ LET r == texts[Len(processed_texts) + 1]
       IN /\ heap' = [heap EXCEPT ![r].has_search_text = TRUE,
                                  ![r].search_text = SearchTextOf(heap[r].content)]
          /\ processed_texts' = Append(processed_texts, r)
    /\ UNCHANGED <<is_initialized, texts, cache, builds, wpc, wop, wret, raw_data, pre_texts, pre_state>>
    /\ UNCHANGED <<rvars, cvars, fvars>>

\* an exception while processing (47-49) reaches the handler (58-61)
initialize_process_raise ==
    /\ wpc = "process"
    /\ WriterReturn("False")
    /\ UNCHANGED <<is_initialized, texts, heap, cache, builds, wop, pre_texts, pre_state>>
    /\ UNCHANGED <<rvars, cvars, fvars>>

\* initialize(): self.texts = processed_texts (50)
initialize_assign ==
    /\ wpc = "process" /\ Len(processed_texts) = Len(texts)
    /\ texts' = processed_texts
    /\ wpc' = "set_ready"
    /\ UNCHANGED <<is_initialized, heap, cache, builds, wop, wret, raw_data, processed_texts, pre_texts, pre_state>>
    /\ UNCHANGED <<rvars, cvars, fvars>>

\* initialize(): self.is_initialized = True; return True (53-56)
initialize_set_ready ==
    /\ wpc = "set_ready"
    /\ is_initialized' = TRUE
    /\ WriterReturn("True")
    /\ UNCHANGED <<texts, heap, cache, builds, wop, pre_texts, pre_state>>
    /\ UNCHANGED <<rvars, cvars, fvars>>

Writer ==
    \/ initialize_call \/ rebuild_index_call \/ rebuild_index_clear
    \/ initialize_load \/ initialize_convert \/ _simple_process_texts_item
    \/ initialize_process_raise \/ initialize_assign \/ initialize_set_ready

\* ----------------------------------------------------------- reader thread
AllTexts == <<"All", " ", "Texts">>

\* the calls of ask the reader makes: question, scripture_filter, language_preference
Queries ==
    { [question |-> <<"What", " ", "is", " ", "dharma", "?">>, scripture_filter |-> AllTexts,
       language_preference |-> "All Languages"],
      [question |-> <<"dharma", " ", "truth">>, scripture_filter |-> <<"Ramcharit", "manas">>,
       language_preference |-> "Hindi"],
      [question |-> <<>>, scripture_filter |-> AllTexts, language_preference |-> "Hindi"],
      [question |-> <<"what", " ", "is">>, scripture_filter |-> AllTexts,
       language_preference |-> "English"],
      [question |-> <<"karma", " ", "truth">>, scripture_filter |-> <<"ramayana">>,
       language_preference |-> "All Languages"] }

\* stop_words of fast_search (191-197), one symbol per word
StopWords ==
    { <<w>> : w \in {"the", "a", "an", "and", "or", "but", "in", "on", "at", "to", "for",
                     "of", "with", "by", "is", "are", "was", "were", "what", "how", "why",
                     "where", "when", "who", "which", "does", "do", "did", "can", "could",
                     "should", "would", "will", "about", "tell", "me", "according", "says",
                     "hi:ka", "hi:ki", "hi:ke", "hi:mein", "hi:se", "hi:ko", "hi:aur",
                     "hi:hai", "hi:hain"} }

\* keywords = set(question.lower().split()) - stop_words (187-199)
Keywords(question) == SeqToSet(Split(Lower(question))) \ StopWords

\* scoring by `all(keyword in search_text for keyword in keywords)`
ScoreUnitAllMatch(r, item, keywords) ==
    LET search_text == IF item.has_search_text THEN item.search_text ELSE <<>>
        all_match == \A k \in keywords : Contains(search_text, k)
    IN [ref |-> r, content |-> item.content, metadata |-> item.metadata,
        score2 |-> IF all_match THEN 2 ELSE 0, nkeys |-> Cardinality(keywords),
        match_count |-> IF all_match THEN 1 ELSE 0]

\* the result fast_search builds for one unit (216-240); similarity_score is
\* the fraction score2 / (2 * nkeys), 0 when there is no keyword
ScoreUnit(r, item, keywords) ==
    LET search_text == IF item.has_search_text THEN item.search_text ELSE <<>>
        text_words == SeqToSet(Split(search_text))
        hit == {k \in keywords : Contains(search_text, k)}
        matches == Cardinality(hit)
        bonus == Cardinality({k \in hit : k \in text_words})
    IN [ref |-> r, content |-> item.content, metadata |-> item.metadata,
        score2 |-> 2 * matches + bonus, nkeys |-> Cardinality(keywords),
        match_count |-> matches]

\* the admission test without the scripture filter
AdmittedUnfiltered(item, scripture_filter) ==
    item.has_search_text /\ Strip(item.search_text) # <<>>

\* scripture filter (205-208) and empty search text (211-214): TRUE when the unit is scored
Admitted(item, scripture_filter) ==
    /\ scripture_filter # AllTexts =>
           Contains(Lower(item.metadata.collection_display), Lower(scripture_filter))
    /\ item.has_search_text /\ Strip(item.search_text) # <<>>

\* the sort key without match_count
RanksAboveByScore(a, b) == a.score2 > b.score2

\* results.sort(key=(similarity_score, match_count), reverse=True): stable
RanksAbove(a, b) ==
    \/ a.score2 > b.score2
    \/ a.score2 = b.score2 /\ a.match_count > b.match_count

RECURSIVE InsertSorted(_, _)
InsertSorted(sorted, x) ==
    IF sorted = <<>> THEN <<x>>
    ELSE IF RanksAbove(x, Head(sorted)) THEN <<x>> \o sorted
         ELSE <<Head(sorted)>> \o InsertSorted(Tail(sorted), x)

RECURSIVE SortResults(_)
SortResults(rs) ==
    IF rs = <<>> THEN <<>>
    ELSE InsertSorted(SortResults(SubSeq(rs, 1, Len(rs) - 1)), rs[Len(rs)])

\* results.sort(...) and `return results[:max_results]` (243-245)
fast_search_return(rs) == SubSeq(SortResults(rs), 1, Min(MaxResults, Len(rs)))

ErrorResponse(with_query) ==
    [kind |-> "error", has_error |-> TRUE, has_sources |-> FALSE, sources |-> <<>>,
     has_query |-> with_query]

\* ask() without the is_initialized test: every call goes on to the search
ask_call_unguarded ==
    /\ rpc = "idle" /\ asks < MaxAsks
    /\ asks' = asks + 1
    /\ \E q \in Queries : query' = q
    /\ response' = NoResponse /\ rpc' = "process_query"
    /\ UNCHANGED <<r_texts, r_i, results, seen_raw>>
    /\ UNCHANGED <<is_initialized, texts, heap, cache, wvars, cvars, fvars>>

\* ask(): the is_initialized test (251-252)
ask_call ==
    /\ rpc = "idle" /\ asks < MaxAsks
    /\ asks' = asks + 1
    /\ \E q \in Queries :
         /\ query' = q
         /\ IF ~is_initialized
            THEN /\ response' = ErrorResponse(FALSE) /\ rpc' = "idle"
            ELSE /\ response' = NoResponse /\ rpc' = "process_query"
    /\ UNCHANGED <<r_texts, r_i, results, seen_raw>>
    /\ UNCHANGED <<is_initialized, texts, heap, cache, wvars, cvars, fvars>>

\* ask(): process_query (256-259); an exception goes to the handler (286-291)
ask_process_query ==
    /\ rpc = "process_query"
    /\ \E raised \in BOOLEAN :
         IF raised
         THEN /\ response' = ErrorResponse(TRUE) /\ rpc' = "idle"
         ELSE /\ rpc' = "search" /\ UNCHANGED response
    /\ UNCHANGED <<asks, query, r_texts, r_i, results, seen_raw>>
    /\ UNCHANGED <<is_initialized, texts, heap, cache, wvars, cvars, fvars>>

\* fast_search: `for text_item in self.texts` takes the list (203); None raises
fast_search_begin ==
    /\ rpc = "search"
    /\ IF texts = None
       THEN /\ response' = ErrorResponse(TRUE) /\ rpc' = "idle"
            /\ UNCHANGED <<r_texts, r_i, results>>
       ELSE /\ r_texts' = texts /\ r_i' = 1 /\ results' = <<>> /\ rpc' = "iterate"
            /\ UNCHANGED response
    /\ UNCHANGED <<asks, query, seen_raw>>
    /\ UNCHANGED <<is_initialized, texts, heap, cache, wvars, cvars, fvars>>

\* fast_search annotating the unit dict itself with its match count
fast_search_iter_in_place ==
    /\ rpc = "iterate" /\ r_i <= Len(r_texts)
    /\ LET item == heap[r_texts[r_i]]
           res == ScoreUnit(r_texts[r_i], item, Keywords(query.question))
       IN /\ results' = IF Admitted(item, query.scripture_filter) /\ res.score2 > 0
                        THEN Append(results, res) ELSE results
          /\ seen_raw' = (seen_raw \/ ~item.has_search_text)
          /\ heap' = [heap EXCEPT ![r_texts[r_i]].metadata =
                        [k \in DOMAIN item.metadata \cup {"match_count"} |->
                            IF k = "match_count" THEN res.match_count ELSE item.metadata[k]]]
    /\ r_i' = r_i + 1
    /\ UNCHANGED <<asks, rpc, query, r_texts, response>>
    /\ UNCHANGED <<is_initialized, texts, cache, wvars, cvars, fvars>>

\* fast_search: one iteration of the loop over the units (203-240)
fast_search_iter ==
    /\ rpc = "iterate" /\ r_i <= Len(r_texts)
    /\ LET item == heap[r_texts[r_i]]
           res == ScoreUnit(r_texts[r_i], item, Keywords(query.question))
       IN /\ results' = IF Admitted(item, query.scripture_filter) /\ res.score2 > 0
                        THEN Append(results, res) ELSE results
          /\ seen_raw' = (seen_raw \/ ~item.has_search_text)
    /\ r_i' = r_i + 1
    /\ UNCHANGED <<asks, rpc, query, r_texts, response>>
    /\ UNCHANGED <<is_initialized, texts, heap, cache, wvars, cvars, fvars>>

\* fast_search: sort and truncate (242-245); ask(): the response (265-284)
ask_respond ==
    /\ rpc = "iterate" /\ r_i > Len(r_texts)
    /\ LET relevant_sources == fast_search_return(results)
       IN response' = IF relevant_sources = <<>>
                      THEN [kind |-> "no_results", has_error |-> FALSE, has_sources |-> TRUE,
                            sources |-> <<>>, has_query |-> TRUE]
                      ELSE [kind |-> "answer", has_error |-> FALSE, has_sources |-> TRUE,
                            sources |-> relevant_sources, has_query |-> TRUE]
    /\ rpc' = "idle"
    /\ UNCHANGED <<asks, query, r_texts, r_i, results, seen_raw>>
    /\ UNCHANGED <<is_initialized, texts, heap, cache, wvars, cvars, fvars>>

Reader ==
    \/ ask_call \/ ask_process_query \/ fast_search_begin \/ fast_search_iter \/ ask_respond

\* ------------------------------------------------------------ orchestrator
ChunkIdle ==
    /\ unit = [has_text |-> FALSE, len |-> 0, specials |-> {}]
    /\ cpc = "off" /\ start = 0 /\ chunk_id = 0 /\ chunks = <<>> /\ overflow = FALSE

\* EmbeddingManager.__init__ (16-20): nothing persisted yet
PersistIdle ==
    /\ embeddings_file = NoFile /\ metadata_file = NoFile /\ index_file = NoFile
    /\ model_name = EMBEDDING_MODEL /\ saves = 0

\* no function is applied on its own
FnIdle == fpc = "off" /\ arg = <<>> /\ out = <<>> /\ PersistIdle

\* KalkiRAGChain.__init__ (20-28); nothing cached yet
Init ==
    /\ is_initialized = FALSE /\ texts = None /\ heap = <<>> /\ cache = NoCache
    /\ builds = 0 /\ wpc = "idle" /\ wop = "none" /\ wret = "none"
    /\ raw_data = <<>> /\ processed_texts = <<>> /\ pre_texts = {} /\ pre_state = NoPreState
    /\ asks = 0 /\ rpc = "idle" /\ query = [question |-> <<>>, scripture_filter |-> AllTexts,
                                            language_preference |-> "All Languages"]
    /\ r_texts = <<>> /\ r_i = 1 /\ results = <<>> /\ response = NoResponse
    /\ seen_raw = FALSE
    /\ ChunkIdle
    /\ FnIdle

Next == Writer \/ Reader

Spec == Init /\ [][Next]_vars

\* ----------------------------------------------------------------- chunker
\* A unit text is given by its length and the positions (0-based) of its
\* characters that are not letters: "." a sentence terminator, " " a space,
\* "\n" a newline (terminator and whitespace); every other character is "x".
CharAt(u, i) ==
    IF \E sp \in u.specials : sp.pos = i
    THEN (CHOOSE sp \in u.specials : sp.pos = i).ch
    ELSE "x"

\* full_text = content.get("text", "") (34)
FullLen(u) == IF u.has_text THEN u.len ELSE 0

SentenceEndings == {".", "\n"}

\* _find_break_point(text, position) (72-92)
_find_break_point(u, position) ==
    LET back == {i \in (Max(0, position - BackWindow) + 1)..position :
                    CharAt(u, i) \in SentenceEndings}
        fwd == {i \in position..(Min(FullLen(u), position + FwdWindow) - 1) :
                    CharAt(u, i) \in SentenceEndings}
        space == {i \in (Max(0, position - SpaceWindow) + 1)..position : CharAt(u, i) = " "}
    IN IF back # {} THEN (CHOOSE i \in back : \A j \in back : j <= i) + 1
       ELSE IF fwd # {} THEN (CHOOSE i \in fwd : \A j \in fwd : i <= j) + 1
       ELSE IF space # {} THEN CHOOSE i \in space : \A j \in space : j <= i
       ELSE position

\* the index range [lo, hi) that text[a:b].strip() keeps
SliceIdx(i, n) == IF i < 0 THEN Max(i + n, 0) ELSE Min(i, n)

RECURSIVE SkipLeft(_, _, _)
SkipLeft(u, i, b) ==
    IF i < b /\ CharAt(u, i) \in Whitespace THEN SkipLeft(u, i + 1, b) ELSE i

RECURSIVE SkipRight(_, _, _)
SkipRight(u, a, i) ==
    IF i > a /\ CharAt(u, i - 1) \in Whitespace THEN SkipRight(u, a, i - 1) ELSE i

StripRange(u, a, b) ==
    LET a0 == SliceIdx(a, FullLen(u))
        b0 == Max(a0, SliceIdx(b, FullLen(u)))
        lo == SkipLeft(u, a0, b0)
    IN [lo |-> lo, hi |-> SkipRight(u, lo, b0)]

\* a chunk: chunk_id, the slice [start, end) it was cut from and the range
\* [lo, hi) of the text that its chunk_text holds
Chunk(id, a, b, lo, hi) == [chunk_id |-> id, start |-> a, end |-> b, lo |-> lo, hi |-> hi]

\* chunk_text: up to the loop (30-47); a short text returns one chunk (36-42)
chunk_text_call ==
    /\ cpc = "call"
    /\ IF FullLen(unit) <= CHUNK_SIZE
       THEN /\ chunks' = <<Chunk(0, 0, FullLen(unit), 0, FullLen(unit))>>
            /\ cpc' = "done"
       ELSE /\ chunks' = <<>>
            /\ cpc' = "test"
    /\ start' = 0 /\ chunk_id' = 0
    /\ UNCHANGED <<unit, overflow, ovars, fvars>>

\* chunk_text: the test of `while start < len(full_text)` (49), and the
\* return when it fails (70)
chunk_text_test ==
    /\ cpc = "test"
    /\ cpc' = IF start < FullLen(unit) THEN "body" ELSE "done"
    /\ UNCHANGED <<unit, start, chunk_id, chunks, overflow, ovars, fvars>>

\* chunk_text: one iteration of the loop (50-68)
chunk_text_body ==
    /\ cpc = "body"
    /\ LET tentative == start + CHUNK_SIZE
           end == IF tentative < FullLen(unit)
                  THEN _find_break_point(unit, tentative)
                  ELSE FullLen(unit)
           kept == StripRange(unit, start, end)
       IN /\ IF kept.hi > kept.lo
             THEN IF Len(chunks) < MaxChunks
                  THEN /\ chunks' = Append(chunks, Chunk(chunk_id, start, end, kept.lo, kept.hi))
                       /\ chunk_id' = chunk_id + 1
                       /\ UNCHANGED overflow
                  ELSE /\ overflow' = TRUE
                       /\ UNCHANGED <<chunks, chunk_id>>
             ELSE UNCHANGED <<chunks, chunk_id, overflow>>
          /\ start' = end - CHUNK_OVERLAP
    /\ cpc' = "test"
    /\ UNCHANGED <<unit, ovars, fvars>>

\* the unit texts chunk_text is applied to
Lens == {0, 1, 2, 512, 513, 600, 700, 1100}
Marks(n) ==
    {p \in {0, 1, 412, 413, 462, 463, 512, 560, 611, 612, n - 1} :
        p >= 0 /\ p < n}
RECURSIVE SubsetsUpTo(_, _)
SubsetsUpTo(A, k) ==
    IF k = 0 THEN {{}}
    ELSE LET smaller == SubsetsUpTo(A, k - 1)
         IN smaller \cup {S \cup {a} : S \in smaller, a \in A}
Specials(n) ==
    {S \in SubsetsUpTo(Marks(n) \X {".", " ", "\n"}, MaxSpecials) :
        \A a, b \in S : a[1] = b[1] => a = b}
Units ==
    {[has_text |-> FALSE, len |-> 1, specials |-> {}]}
    \cup UNION {{[has_text |-> TRUE, len |-> n,
                   specials |-> {[pos |-> m[1], ch |-> m[2]] : m \in S}] : S \in Specials(n)} :
                 n \in Lens}

InitChunk ==
    /\ is_initialized = FALSE /\ texts = None /\ heap = <<>> /\ cache = NoCache
    /\ builds = 0 /\ wpc = "idle" /\ wop = "none" /\ wret = "none"
    /\ raw_data = <<>> /\ processed_texts = <<>> /\ pre_texts = {} /\ pre_state = NoPreState
    /\ asks = 0 /\ rpc = "idle" /\ query = [question |-> <<>>, scripture_filter |-> AllTexts,
                                            language_preference |-> "All Languages"]
    /\ r_texts = <<>> /\ r_i = 1 /\ results = <<>> /\ response = NoResponse
    /\ seen_raw = FALSE
    /\ unit \in Units
    /\ cpc = "call" /\ start = 0 /\ chunk_id = 0 /\ chunks = <<>> /\ overflow = FALSE
    /\ FnIdle

NextChunk == chunk_text_call \/ chunk_text_test \/ chunk_text_body

\* the interpreter keeps running chunk_text until it returns
SpecChunk == InitChunk /\ [][NextChunk]_vars /\ WF_vars(NextChunk)

\* ------------------------------------------------ functions applied alone
\* the state of the orchestrator while a function is applied on its own
OrchestratorIdle ==
    /\ is_initialized = FALSE /\ texts = None /\ heap = <<>> /\ cache = NoCache
    /\ builds = 0 /\ wpc = "idle" /\ wop = "none" /\ wret = "none"
    /\ raw_data = <<>> /\ processed_texts = <<>> /\ pre_texts = {} /\ pre_state = NoPreState
    /\ asks = 0 /\ rpc = "idle" /\ query = [question |-> <<>>, scripture_filter |-> AllTexts,
                                            language_preference |-> "All Languages"]
    /\ r_texts = <<>> /\ r_i = 1 /\ results = <<>> /\ response = NoResponse
    /\ seen_raw = FALSE

\* all sequences over A of length <= n
RECURSIVE SeqsUpTo(_, _)
SeqsUpTo(A, n) ==
    IF n = 0 THEN {<<>>}
    ELSE LET shorter == SeqsUpTo(A, n - 1)
         IN shorter \cup {Append(t, a) : t \in shorter, a \in A}

\* --------------------------------------------------------------- clean_text
\* symbols that are neither word characters, whitespace, Devanagari nor in
\* the punctuation kept by the character class of utils.py line 49
DisallowedSyms == {"@", "#", "(", ")", "*"}

\* re.sub(r'\s+', ' ', s): every run of whitespace becomes one space
RECURSIVE CollapseWhitespace(_)
CollapseWhitespace(s) ==
    IF s = <<>> THEN <<>>
    ELSE IF Head(s) \in Whitespace
         THEN <<" ">> \o CollapseWhitespace(LStrip(Tail(s)))
         ELSE <<Head(s)>> \o CollapseWhitespace(Tail(s))

\* re.sub(r'[^...]', ' ', s): every disallowed character becomes a space
ReplaceDisallowed(s) == [i \in 1..Len(s) |-> IF s[i] \in DisallowedSyms THEN " " ELSE s[i]]

\* re.sub(r'[c]{2,}', 'c', s): every run of c becomes one c
RECURSIVE CollapseRun(_, _)
CollapseRun(s, c) ==
    IF Len(s) < 2 THEN s
    ELSE IF s[1] = c /\ s[2] = c THEN CollapseRun(Tail(s), c)
         ELSE <<s[1]>> \o CollapseRun(Tail(s), c)

\* clean_text(text) (utils.py 39-59)
clean_text(text) ==
    IF text = <<>> THEN <<>>
    ELSE LET spaced == CollapseWhitespace(Strip(text))
             kept == ReplaceDisallowed(spaced)
             dots == CollapseRun(kept, ".")
             commas == CollapseRun(dots, ",")
             dandas == CollapseRun(commas, "hi:danda")
         IN Strip(dandas)

CleanAlphabet == {"a", " ", "\n", "@", ".", ",", "hi:danda"}
CleanInputs == SeqsUpTo(CleanAlphabet, MaxCleanLen)

clean_text_call ==
    /\ fpc = "clean_text"
    /\ out' = clean_text(arg)
    /\ fpc' = "cleaned"
    /\ UNCHANGED <<arg, ovars, cvars, pvars>>

InitClean ==
    /\ OrchestratorIdle /\ ChunkIdle /\ PersistIdle
    /\ fpc = "clean_text" /\ arg \in CleanInputs /\ out = <<>>

NextClean == clean_text_call

SpecClean == InitClean /\ [][NextClean]_vars

\* ------------------------------------------------- get_collection_from_filename
\* data_loader.get_collection_from_filename (115-134)
get_collection_from_filename(filename) ==
    IF AnyWordIn(filename, {<<"bhagavad">>, <<"gita">>}) THEN <<"Bhagavad", " ", "Gita">>
    ELSE IF AnyWordIn(filename, {<<"ramayana">>, <<"valmiki">>}) THEN <<"Ramayana">>
    ELSE IF AnyWordIn(filename, {<<"mahabharata">>}) THEN <<"Mahabharata">>
    ELSE IF AnyWordIn(filename, {<<"rig", "veda">>, <<"rig", "_", "veda">>}) THEN <<"Rigveda">>
    ELSE IF AnyWordIn(filename, {<<"yajur", "veda">>, <<"yajur", "_", "veda">>}) THEN <<"Yajurveda">>
    ELSE IF AnyWordIn(filename, {<<"atharva", "veda">>, <<"atharva", "_", "veda">>})
         THEN <<"Atharvaveda">>
    ELSE IF AnyWordIn(filename, {<<"ramcharit", "manas">>}) THEN <<"Ramcharit", "manas">>
    ELSE <<"Other", " ", "Texts">>

\* the letter runs filenames are made of
FilenameSyms ==
    {"Valmiki", "Ramayana", "ramcharit", "manas", "gita", "mahabharata",
     "Rig", "yajur", "atharva", "veda", "_", "Sundarkand", "randomfile"}

Filenames == SeqsUpTo(FilenameSyms, MaxNameLen)

\* both inference functions applied to one filename
infer_collection_call ==
    /\ fpc = "infer"
    /\ out' = <<get_collection_from_filename(arg), _get_collection_display_name(arg)>>
    /\ fpc' = "inferred"
    /\ UNCHANGED <<arg, ovars, cvars, pvars>>

InitInfer ==
    /\ OrchestratorIdle /\ ChunkIdle /\ PersistIdle
    /\ fpc = "infer" /\ arg \in Filenames /\ out = <<>>

NextInfer == infer_collection_call

SpecInfer == InitInfer /\ [][NextInfer]_vars

\* ------------------------------------------------------ load_all_scripture_data
\* A downloaded source is [status, files]: status "ok" when the download and
\* the archive can be read; files are the archive's .json members in
\* namelist() order, each [dirs, stem, valid, data] with dirs the folders of
\* its path, valid whether json.loads accepts it, data its parsed value.
\* The loaded mapping (a dict, insertion-ordered) is a sequence of
\* [name, data] with pairwise distinct names.
HasKey(all_data, key) == \E k \in 1..Len(all_data) : all_data[k].name = key

\* all_data[key] = data
DictPut(all_data, key, data) ==
    IF HasKey(all_data, key)
    THEN [k \in 1..Len(all_data) |->
            IF all_data[k].name = key THEN [name |-> key, data |-> data] ELSE all_data[k]]
    ELSE Append(all_data, [name |-> key, data |-> data])

\* Path(file_path).parent.name: the last folder, '' for a file at the root
ParentName(dirs) == IF dirs = <<>> THEN <<>> ELSE <<dirs[Len(dirs)]>>

\* the key data_loader gives a file (61-66)
CleanName(f, all_data, file_count) ==
    IF HasKey(all_data, f.stem)
    THEN LET folder_name == ParentName(f.dirs)
         IN IF folder_name # <<".">>
            THEN folder_name \o <<"_">> \o f.stem
            ELSE <<"file", "_", ToString(file_count), "_">> \o f.stem
    ELSE f.stem

\* the loop of data_loader.load_all_scripture_data over json_files (54-79)
RECURSIVE LoadFiles(_, _, _)
LoadFiles(files, all_data, file_count) ==
    IF files = <<>> THEN all_data
    ELSE LET f == Head(files)
         IN IF ~f.valid THEN LoadFiles(Tail(files), all_data, file_count)
            ELSE LoadFiles(Tail(files),
                           DictPut(all_data, CleanName(f, all_data, file_count), f.data),
                           file_count + 1)

\* data_loader.load_all_scripture_data (15-113)
load_all_scripture_data(source) ==
    IF source.status # "ok" THEN <<>>
    ELSE LET all_data == LoadFiles(source.files, <<>>, 0)
         IN IF all_data # <<>> THEN all_data ELSE <<>>

\* the loop of drive_loader.load_all_scripture_data (37-49)
RECURSIVE DriveLoadFiles(_, _)
DriveLoadFiles(files, all_data) ==
    IF files = <<>> THEN all_data
    ELSE LET f == Head(files)
         IN IF ~f.valid THEN DriveLoadFiles(Tail(files), all_data)
            ELSE DriveLoadFiles(Tail(files), DictPut(all_data, f.stem, f.data))

\* drive_loader.load_all_scripture_data (14-59)
drive_load_all_scripture_data(source) ==
    IF source.status # "ok" THEN <<>> ELSE DriveLoadFiles(source.files, <<>>)

ArchiveDirs == {<<>>, <<"a">>, <<"b", "a">>}
ArchiveStems == {<<"x">>, <<"a", "_", "x">>}
ArchiveMembers == [dirs : ArchiveDirs, stem : ArchiveStems, valid : BOOLEAN]

\* archives of at most MaxFiles members with pairwise distinct paths; the data
\* of a member is its position, so that every file's data is different
Archives ==
    {[i \in 1..Len(s) |->
        [dirs |-> s[i].dirs, stem |-> s[i].stem, valid |-> s[i].valid, data |-> i]] :
     s \in {t \in SeqsUpTo(ArchiveMembers, MaxFiles) :
              \A i, j \in 1..Len(t) :
                  (t[i].dirs = t[j].dirs /\ t[i].stem = t[j].stem) => i = j}}

FailedStatuses == {"network_error", "bad_zip", "exception"}

Sources ==
    {[status |-> "ok", files |-> a] : a \in Archives}
        \cup {[status |-> st, files |-> <<>>] : st \in FailedStatuses}

load_all_scripture_data_call ==
    /\ fpc = "load"
    /\ out' = load_all_scripture_data(arg)
    /\ fpc' = "loaded"
    /\ UNCHANGED <<arg, ovars, cvars, pvars>>

drive_load_all_scripture_data_call ==
    /\ fpc = "load"
    /\ out' = drive_load_all_scripture_data(arg)
    /\ fpc' = "drive_loaded"
    /\ UNCHANGED <<arg, ovars, cvars, pvars>>

InitArchive ==
    /\ OrchestratorIdle /\ ChunkIdle /\ PersistIdle
    /\ fpc = "load" /\ arg \in Sources /\ out = <<>>

NextArchive == load_all_scripture_data_call \/ drive_load_all_scripture_data_call

SpecArchive == InitArchive /\ [][NextArchive]_vars

\* ------------------------------------------------------ _convert_to_rag_format
\* the keys whose value is a list of records; every other key holds a string
ListKeys == {"verses", "shlokas"}

\* the keys of a parsed dict in the order they are printed
KeyOrder == <<"english", "note", "verses", "shlokas">>

Quoted(str) == <<"'">> \o str \o <<"'">>

\* the entries `'key': 'value'` of a dict of strings, joined by ', '
RECURSIVE ReprStrFields(_, _, _)
ReprStrFields(fields, order, first) ==
    IF order = <<>> THEN <<>>
    ELSE IF Head(order) \notin DOMAIN fields THEN ReprStrFields(fields, Tail(order), first)
    ELSE (IF first THEN <<>> ELSE <<",", " ">>)
             \o Quoted(<<Head(order)>>) \o <<":", " ">> \o Quoted(fields[Head(order)])
             \o ReprStrFields(fields, Tail(order), FALSE)

\* repr() of a list element: a string or a dict of strings
ReprItem(v) ==
    IF v.kind = "scalar" THEN Quoted(v.str)
    ELSE <<"{">> \o ReprStrFields(v.fields, KeyOrder, TRUE) \o <<"}">>

RECURSIVE ReprItems(_, _)
ReprItems(items, first) ==
    IF items = <<>> THEN <<>>
    ELSE (IF first THEN <<>> ELSE <<",", " ">>) \o ReprItem(Head(items))
             \o ReprItems(Tail(items), FALSE)

RECURSIVE ReprFields(_, _, _)
ReprFields(fields, order, first) ==
    IF order = <<>> THEN <<>>
    ELSE IF Head(order) \notin DOMAIN fields THEN ReprFields(fields, Tail(order), first)
    ELSE (IF first THEN <<>> ELSE <<",", " ">>)
             \o Quoted(<<Head(order)>>) \o <<":", " ">>
             \o (IF Head(order) \in ListKeys
                 THEN <<"[">> \o ReprItems(fields[Head(order)], TRUE) \o <<"]">>
                 ELSE Quoted(fields[Head(order)]))
             \o ReprFields(fields, Tail(order), FALSE)

\* str(value) of a parsed JSON value
StrOf(v) ==
    IF v.kind = "scalar" THEN v.str
    ELSE IF v.kind = "dict" THEN <<"{">> \o ReprFields(v.fields, KeyOrder, TRUE) \o <<"}">>
    ELSE <<"[">> \o ReprItems(v.items, TRUE) \o <<"]">>

\* text_fields of _extract_content_fields (229-233)
TextFields ==
    {"text", "content", "verse", "shloka", "mantra", "sanskrit", "devanagari",
     "hindi", "english", "translation", "meaning", "commentary"}

\* DharmicDataLoader._extract_content_fields (222-245)
_extract_content_fields(item) ==
    IF item.kind = "dict"
    THEN LET found == {f \in TextFields \cap DOMAIN item.fields : item.fields[f] # <<>>}
         IN IF found # {} THEN [f \in found |-> Strip(item.fields[f])]
            ELSE [text |-> StrOf(item)]
    ELSE [text |-> StrOf(item)]

\* collection.lower().replace(' ', '_')
CollectionKey(collection) ==
    [i \in 1..Len(collection) |->
        IF collection[i] = " " THEN "_" ELSE LowerSym(collection[i])]

RagMetadata(filename, idx, total) ==
    [collection |-> CollectionKey(get_collection_from_filename(filename)),
     source_file |-> filename, item_index |-> idx, total_items |-> total,
     collection_display |-> get_collection_from_filename(filename)]

\* the units one file contributes on the loader path (170-210)
RagFormatFile(f) ==
    IF f.json.kind = "list"
    THEN [k \in 1..Len(f.json.items) |->
            [id |-> f.name \o <<"_", ToString(k - 1)>>,
             content |-> _extract_content_fields(f.json.items[k]),
             metadata |-> RagMetadata(f.name, k - 1, Len(f.json.items))]]
    ELSE << [id |-> f.name,
             content |-> IF f.json.kind = "dict" THEN _extract_content_fields(f.json)
                         ELSE [text |-> StrOf(f.json)],
             metadata |-> RagMetadata(f.name, 0, 1)] >>

RECURSIVE _convert_to_rag_format(_)
_convert_to_rag_format(raw) ==
    IF raw = <<>> THEN <<>>
    ELSE RagFormatFile(Head(raw)) \o _convert_to_rag_format(Tail(raw))

\* DataValidator.count_verses (120-132)
count_verses(data) ==
    IF data.kind = "list" THEN Len(data.items)
    ELSE IF data.kind = "dict"
    THEN IF "verses" \in DOMAIN data.fields THEN Len(data.fields.verses)
         ELSE IF "shlokas" \in DOMAIN data.fields THEN Len(data.fields.shlokas)
         ELSE 1
    ELSE 0

\* parsed JSON values given to the conversion
JsonItems ==
    {[kind |-> "dict", fields |-> <<>>],
     [kind |-> "dict", fields |-> [english |-> <<"dharma">>]],
     [kind |-> "dict", fields |-> [note |-> <<"n">>]],
     [kind |-> "scalar", str |-> <<"om">>]}

JsonLists == SeqsUpTo(JsonItems, MaxItems)

JsonValues ==
    {[kind |-> "list", items |-> l] : l \in JsonLists}
        \cup JsonItems
        \cup {[kind |-> "dict", fields |-> [verses |-> l]] : l \in JsonLists \ {<<>>}}
        \cup {[kind |-> "dict", fields |-> [shlokas |-> l]] : l \in JsonLists \ {<<>>}}

ConvNames == {<<"gita">>, <<"gita", "_", "0">>}

\* mappings of pairwise distinct filenames to parsed values
Mappings ==
    {m \in SeqsUpTo([name : ConvNames, json : JsonValues], MaxConvFiles) :
        \A i, j \in 1..Len(m) : m[i].name = m[j].name => i = j}

_convert_to_rag_format_call ==
    /\ fpc = "convert"
    /\ out' = _convert_to_rag_format(arg)
    /\ fpc' = "rag_formatted"
    /\ UNCHANGED <<arg, ovars, cvars, pvars>>

_convert_data_format_call ==
    /\ fpc = "convert"
    /\ out' = _convert_data_format(arg)
    /\ fpc' = "converted"
    /\ UNCHANGED <<arg, ovars, cvars, pvars>>

InitConvert ==
    /\ OrchestratorIdle /\ ChunkIdle /\ PersistIdle
    /\ fpc = "convert" /\ arg \in Mappings /\ out = <<>>

NextConvert == _convert_to_rag_format_call \/ _convert_data_format_call

SpecConvert == InitConvert /\ [][NextConvert]_vars

\* ------------------------------------------------------------- search_similar
\* Vectors have two components in tenths, so a dot product is in hundredths.
Dot(u, v) == u[1] * v[1] + u[2] * v[2]

\* np.dot(embeddings, query_embedding.T).flatten() (129)
Similarities(embeddings, query_embedding) ==
    [i \in 1..Len(embeddings) |-> Dot(embeddings[i], query_embedding)]

IndexOrders(n) ==
    {p \in [1..n -> 1..n] : \A i, j \in 1..n : p[i] = p[j] => i = j}

\* np.argsort(similarities): numpy's default sort is not stable, so every
\* ascending order of the chunk indices is a possible value
ArgSorts(similarities) ==
    {p \in IndexOrders(Len(similarities)) :
        \A i, j \in 1..Len(similarities) :
            i < j => similarities[p[i]] <= similarities[p[j]]}

Reverse(s) == [i \in 1..Len(s) |-> s[Len(s) + 1 - i]]

\* the loop over top_indices without the threshold test
search_similar_unfiltered(similarities, order, k) ==
    LET top_indices == SubSeq(Reverse(order), 1, Min(k, Len(order)))
    IN [i \in 1..Len(top_indices) |->
           [idx |-> top_indices[i], similarity_score |-> similarities[top_indices[i]]]]

\* top_indices = argsort[::-1][:k] and the loop over them (132-142); a result
\* is the text of chunk idx (chunk indices start at 1 here) with its score
search_similar(similarities, order, k) ==
    LET top_indices == SubSeq(Reverse(order), 1, Min(k, Len(order)))
        kept == SelectSeq(top_indices, LAMBDA idx : similarities[idx] >= SIMILARITY_THRESHOLD)
    IN [i \in 1..Len(kept) |->
           [idx |-> kept[i], similarity_score |-> similarities[kept[i]]]]

EmbeddingRows == {<<10, 0>>, <<0, 10>>, <<6, 8>>, <<3, 0>>, <<2, 0>>}
QueryEmbeddings == {<<10, 0>>, <<0, 10>>, <<6, 8>>}

SearchInputs ==
    [embeddings : SeqsUpTo(EmbeddingRows, MaxRows),
     query_embedding : QueryEmbeddings,
     k : 0..MaxK]

search_similar_call ==
    /\ fpc = "search_similar"
    /\ LET similarities == Similarities(arg.embeddings, arg.query_embedding)
       IN \E order \in ArgSorts(similarities) :
              out' = search_similar(similarities, order, arg.k)
    /\ fpc' = "searched"
    /\ UNCHANGED <<arg, ovars, cvars, pvars>>

InitSearch ==
    /\ OrchestratorIdle /\ ChunkIdle /\ PersistIdle
    /\ fpc = "search_similar" /\ arg \in SearchInputs /\ out = <<>>

NextSearch == search_similar_call

SpecSearch == InitSearch /\ [][NextSearch]_vars

\* ------------------------------------------------------------ rebuild from Ready
\* the units of a corpus after _convert_data_format and _simple_process_texts
ProcessedUnits(raw) ==
    LET units == _convert_data_format(raw)
    IN [k \in 1..Len(units) |->
           [units[k] EXCEPT !.has_search_text = TRUE,
                            !.search_text = SearchTextOf(units[k].content)]]

\* The orchestrator after initialize() has returned True on a non-empty
\* corpus; builds counts the calls started after that one.
InitReady ==
    /\ \E raw \in RawDataChoices \ {EmptyData} :
          /\ cache = raw
          /\ texts = [k \in 1..Len(ProcessedUnits(raw)) |-> k]
          /\ heap = ProcessedUnits(raw)
    /\ is_initialized = TRUE
    /\ builds = 0 /\ wpc = "idle" /\ wop = "initialize" /\ wret = "True"
    /\ raw_data = <<>> /\ processed_texts = <<>> /\ pre_texts = {} /\ pre_state = NoPreState
    /\ asks = 0 /\ rpc = "idle" /\ query = [question |-> <<>>, scripture_filter |-> AllTexts,
                                            language_preference |-> "All Languages"]
    /\ r_texts = <<>> /\ r_i = 1 /\ results = <<>> /\ response = NoResponse
    /\ seen_raw = FALSE
    /\ ChunkIdle
    /\ FnIdle

NextRebuild == Writer

SpecRebuild == InitReady /\ [][NextRebuild]_vars

\* --------------------------------------------------- persisted embeddings
FallbackModel == "all-MiniLM-L6-v2"
LargeModel == "sentence-transformers/paraphrase-multilingual-mpnet-base-v2"

\* the values Config.EMBEDDING_MODEL is given
Models == {EMBEDDING_MODEL, FallbackModel, LargeModel}

\* the vector dimension of each model
EmbeddingDim(model) == IF model = LargeModel THEN 768 ELSE 384

\* load_embeddings returning None for one element of its tuple
NoneResult == [kind |-> "none"]

\* save_embeddings (72-95): np.save writes text_embeddings.npy, then the
\* metadata is built and dumped; an exception after np.save is logged only,
\* with embedding_metadata.json untouched (raised before open) or cut short
\* (raised inside json.dump).
save_embeddings ==
    /\ fpc \in {"persist", "saved", "loaded_embeddings", "index_saved", "loaded_index",
                "configured"}
    /\ saves < MaxSaves
    /\ saves' = saves + 1
    /\ \E n \in 1..MaxSavedTexts : \E outcome \in {"saved", "untouched", "cut_short"} :
          /\ embeddings_file' = [kind |-> "npy", save |-> saves + 1, rows |-> n,
                                 dim |-> EmbeddingDim(model_name)]
          /\ metadata_file' =
                IF outcome = "saved"
                THEN [kind |-> "json", save |-> saves + 1, num_texts |-> n,
                      model_name |-> model_name, embedding_dim |-> EmbeddingDim(model_name)]
                ELSE IF outcome = "untouched" THEN metadata_file
                ELSE [kind |-> "cut_short"]
    /\ fpc' = "saved"
    /\ UNCHANGED <<arg, out, index_file, model_name, ovars, cvars>>

\* load_embeddings (97-117): the value it returns for the files on disk
load_embeddings ==
    IF embeddings_file = NoFile \/ metadata_file = NoFile THEN <<NoneResult, NoneResult>>
    ELSE IF metadata_file.kind = "cut_short" THEN <<NoneResult, NoneResult>>
    ELSE <<embeddings_file,
           [kind |-> "texts", save |-> metadata_file.save,
            num_texts |-> metadata_file.num_texts]>>

load_embeddings_call ==
    /\ fpc \in {"persist", "saved", "loaded_embeddings", "index_saved", "loaded_index",
                "configured"}
    /\ out' = load_embeddings
    /\ fpc' = "loaded_embeddings"
    /\ UNCHANGED <<arg, pvars, ovars, cvars>>

\* VectorStore.create_index and save_index (21-50) on the embeddings of n texts
save_index ==
    /\ fpc \in {"persist", "saved", "loaded_embeddings", "index_saved", "loaded_index",
                "configured"}
    /\ \E n \in 1..MaxSavedTexts :
          index_file' = [kind |-> "faiss", d |-> EmbeddingDim(model_name), ntotal |-> n]
    /\ fpc' = "index_saved"
    /\ UNCHANGED <<arg, out, embeddings_file, metadata_file, model_name, saves, ovars, cvars>>

\* VectorStore.load_index (52-68): its return value and self.dimension
load_index ==
    IF index_file = NoFile THEN <<FALSE, 0>> ELSE <<TRUE, index_file.d>>

load_index_call ==
    /\ fpc \in {"persist", "saved", "loaded_embeddings", "index_saved", "loaded_index",
                "configured"}
    /\ out' = load_index
    /\ fpc' = "loaded_index"
    /\ UNCHANGED <<arg, pvars, ovars, cvars>>

\* a new process whose Config.EMBEDDING_MODEL names another model
\* (EmbeddingManager.__init__, 19)
configure_model ==
    /\ fpc \in {"persist", "saved", "loaded_embeddings", "index_saved", "loaded_index"}
    /\ \E m \in Models \ {model_name} : model_name' = m
    /\ fpc' = "configured"
    /\ UNCHANGED <<arg, out, embeddings_file, metadata_file, index_file, saves, ovars, cvars>>

InitPersist ==
    /\ OrchestratorIdle /\ ChunkIdle /\ PersistIdle
    /\ fpc = "persist" /\ arg = <<>> /\ out = <<>>

NextPersist ==
    \/ save_embeddings \/ load_embeddings_call
    \/ save_index \/ load_index_call
    \/ configure_model

SpecPersist == InitPersist /\ [][NextPersist]_vars

\* ------------------------------------------------------------ detect_language
\* Devanagari words and signs are the symbols "hi:..."; "mojibake:..." are the
\* Latin-script strings the source file holds in place of the Sanskrit markers.
DevanagariSyms ==
    {"hi:dharma", "hi:karma", "hi:krishna", "hi:rama", "hi:shiva", "hi:vishnu",
     "hi:hanuman", "hi:gita", "hi:veda", "hi:yoga",
     "hi:shloka", "hi:mantra", "hi:om", "hi:double_danda", "hi:danda"}

\* re.search(r'[ऀ-ॿ]', text) (35)
HasDevanagari(text) == \E i \in 1..Len(text) : text[i] \in DevanagariSyms

\* sanskrit_indicators as the source file spells them (37)
sanskrit_indicators ==
    {"mojibake:shloka", "mojibake:mantra", "mojibake:om", "mojibake:double_danda"}

\* what langdetect.detect does with a text: a language code or an exception
DetectorOutcomes == {"en", "hi", "fr", "raise"}

\* MultilingualProcessor.detect_language (28-46), detected being the outcome
\* of langdetect on this text
detect_language(text, detected) ==
    IF detected = "raise" THEN "english"
    ELSE IF HasDevanagari(text)
    THEN IF \E i \in 1..Len(text) : text[i] \in sanskrit_indicators
         THEN "sanskrit" ELSE "hindi"
    ELSE IF detected = "en" THEN "english" ELSE detected

\* " ".join(words)
RECURSIVE JoinWords(_)
JoinWords(words) ==
    IF words = <<>> THEN <<>>
    ELSE IF Len(words) = 1 THEN Head(words)
    ELSE Head(words) \o <<" ">> \o JoinWords(Tail(words))

\* replacements of _clean_query (74-85), in dict order
Replacements ==
    << [key |-> "krishna", value |-> <<"krishna", " ", "iast:krishna", " ", "hi:krishna">>],
       [key |-> "rama", value |-> <<"rama", " ", "iast:rama", " ", "hi:rama">>],
       [key |-> "shiva", value |-> <<"shiva", " ", "iast:shiva", " ", "hi:shiva">>],
       [key |-> "vishnu", value |-> <<"vishnu", " ", "iast:vishnu", " ", "hi:vishnu">>],
       [key |-> "hanuman", value |-> <<"hanuman", " ", "hi:hanuman">>],
       [key |-> "gita", value |-> <<"gita", " ", "iast:gita", " ", "hi:gita">>],
       [key |-> "veda", value |-> <<"veda", " ", "hi:veda">>],
       [key |-> "yoga", value |-> <<"yoga", " ", "hi:yoga">>],
       [key |-> "dharma", value |-> <<"dharma", " ", "hi:dharma">>],
       [key |-> "karma", value |-> <<"karma", " ", "hi:karma">>] >>

\* the loop of _clean_query (87-89): query_lower is computed once, before it
RECURSIVE AppendReplacements(_, _, _)
AppendReplacements(q, q_lower, reps) ==
    IF reps = <<>> THEN q
    ELSE AppendReplacements(
             IF Contains(q_lower, <<Head(reps).key>>)
             THEN q \o <<" ">> \o Head(reps).value ELSE q,
             q_lower, Tail(reps))

\* QueryProcessor._clean_query (65-91)
_clean_query(q) ==
    LET joined == JoinWords(Split(q))
    IN AppendReplacements(joined, Lower(joined), Replacements)

LanguageSyms ==
    {"what", " ", "dharma", "Krishna", "peace",
     "hi:dharma", "hi:double_danda", "hi:om", "mojibake:om"}

LanguageTexts == SeqsUpTo(LanguageSyms, MaxTextLen)

\* detect_language(text): out is the detector's outcome and the value returned
detect_language_call ==
    /\ fpc = "language"
    /\ \E detected \in DetectorOutcomes :
          out' = <<detected, detect_language(arg, detected)>>
    /\ fpc' = "detected"
    /\ UNCHANGED <<arg, ovars, cvars, pvars>>

\* process_query(query) up to the 'language' entry (39-42): out is the
\* detector's outcome on the processed query, the language and the processed query
process_query_call ==
    /\ fpc = "language"
    /\ LET processed_query == _clean_query(arg)
       IN \E detected \in DetectorOutcomes :
              out' = <<detected, detect_language(processed_query, detected), processed_query>>
    /\ fpc' = "processed"
    /\ UNCHANGED <<arg, ovars, cvars, pvars>>

InitLanguage ==
    /\ OrchestratorIdle /\ ChunkIdle /\ PersistIdle
    /\ fpc = "language" /\ arg \in LanguageTexts /\ out = <<>>

NextLanguage == detect_language_call \/ process_query_call

SpecLanguage == InitLanguage /\ [][NextLanguage]_vars

\* ------------------------------------------------- fast_search: sort and cut
\* (score2, match_count) of a matching unit for a query of three keywords:
\* score2 = 2 * matches + bonus with bonus <= matches
MatchScores == {<<2, 1>>, <<3, 1>>, <<6, 2>>, <<6, 3>>}

\* the results list before the sort: the unit at place i carries ref i
MatchLists ==
    {[i \in 1..Len(s) |->
        [ref |-> i, content |-> <<>>, metadata |-> <<>>,
         score2 |-> s[i][1], nkeys |-> 3, match_count |-> s[i][2]]] :
     s \in SeqsUpTo(MatchScores, MaxMatches)}

fast_search_return_call ==
    /\ fpc = "rank"
    /\ out' = fast_search_return(arg)
    /\ fpc' = "ranked"
    /\ UNCHANGED <<arg, ovars, cvars, pvars>>

InitRank ==
    /\ OrchestratorIdle /\ ChunkIdle /\ PersistIdle
    /\ fpc = "rank" /\ arg \in MatchLists /\ out = <<>>

NextRank == fast_search_return_call

SpecRank == InitRank /\ [][NextRank]_vars

\* ------------------------------------------------------------- properties
\* C1: a call of ask made while is_initialized is false returns at once a
\* response with an 'error' entry and no sources, and leaves is_initialized,
\* texts and the units as they were (no implicit initialize).
AskUninitializedReportsError ==
    [][(rpc = "idle" /\ asks' = asks + 1 /\ ~is_initialized) =>
        /\ rpc' = "idle"
        /\ response'.kind = "error" /\ response'.has_error
        /\ ~response'.has_sources /\ response'.sources = <<>>
        /\ is_initialized' = is_initialized /\ texts' = texts /\ heap' = heap]_vars

\* ask answered with the not-initialized error after a rebuild_index that failed
AskedAfterFailedRebuild ==
    /\ response.kind = "error" /\ ~response.has_query
    /\ wpc = "idle" /\ wop = "rebuild_index" /\ wret = "False"
    /\ ~is_initialized /\ texts # None

\* C2: whenever initialize() has returned False (also through
\* rebuild_index, also from Ready), is_initialized is false.
FailedInitializeIsUninitialized ==
    (wpc = "idle" /\ wret = "False") => ~is_initialized

\* C3: after a rebuild_index() that returned False, self.texts and what
\* filter_by_collection, get_collections and get_sample_questions derive from
\* it expose none of the units held before the rebuild.
FailedRebuildHoldsNoOldUnit ==
    (wpc = "idle" /\ wop = "rebuild_index" /\ wret = "False") =>
        /\ SeqToSet(TextsList) \cap pre_texts = {}
        /\ SeqToSet(filter_by_collection(AllTexts)) \cap pre_texts = {}
        /\ pre_texts # {} => (DOMAIN get_collections = {} /\ get_sample_questions = {})

\* C4: while the writer runs initialize() or rebuild_index(), the list that
\* fast_search iterates is a complete build: every unit of it already has
\* its search_text, and none is read without it.
ReaderSeesCompleteBuild ==
    (rpc = "iterate" /\ wpc # "idle") =>
        /\ \A i \in 1..Len(r_texts) : heap[r_texts[i]].has_search_text
        /\ ~seen_raw

\* C5: every step of an ask() that was called in the Ready state (its
\* query processing, each iteration of fast_search, its response, also the
\* no-results and error ones) leaves is_initialized, texts and the units'
\* content, metadata and search_text unchanged.
AskOnlyReads ==
    [][(rvars' # rvars /\ (rpc # "idle" \/ is_initialized)) =>
        (is_initialized' = is_initialized /\ texts' = texts /\ heap' = heap)]_vars

\* ask has answered with sources out of a Ready orchestrator
AnsweredWhenReady ==
    /\ response.kind = "answer" /\ Len(response.sources) > 0
    /\ rpc = "idle" /\ is_initialized /\ wpc = "idle"

\* C6: chunk_text terminates: the loop exits and the chunks are returned.
ChunkTextTerminates == <>(cpc = "done")

\* C7: every chunk emitted for a text longer than chunk_size holds at most
\* chunk_size characters.
ChunkWithinSize ==
    FullLen(unit) > CHUNK_SIZE =>
        \A k \in 1..Len(chunks) : chunks[k].hi - chunks[k].lo <= CHUNK_SIZE

\* the characters of text[lo:hi]
TextOf(u, lo, hi) == [i \in 1..(hi - lo) |-> CharAt(u, lo + i - 1)]

\* C8: for a text of length <= chunk_size chunk_text returns exactly one
\* chunk, chunk_id 0, whose chunk_text is the whole text trimmed.
ShortUnitOneTrimmedChunk ==
    (cpc = "done" /\ FullLen(unit) <= CHUNK_SIZE) =>
        /\ Len(chunks) = 1
        /\ chunks[1].chunk_id = 0
        /\ TextOf(unit, chunks[1].lo, chunks[1].hi)
              = LET t == StripRange(unit, 0, FullLen(unit)) IN TextOf(unit, t.lo, t.hi)

\* C9: no emitted chunk has a chunk_text that is empty after trimming.
NoEmptyChunk ==
    \A k \in 1..Len(chunks) :
        LET t == StripRange(unit, chunks[k].lo, chunks[k].hi) IN t.hi > t.lo

\* C10: for a text longer than chunk_size the chunks' slices start at
\* strictly increasing positions, and once chunk_text has returned every
\* non-whitespace position of the text lies in some chunk.
ChunksCoverInOrder ==
    FullLen(unit) > CHUNK_SIZE =>
        /\ \A k \in 1..(Len(chunks) - 1) : chunks[k].start < chunks[k + 1].start
        /\ cpc = "done" =>
              \A i \in 0..(FullLen(unit) - 1) :
                  CharAt(unit, i) \notin Whitespace =>
                      \E k \in 1..Len(chunks) : chunks[k].lo <= i /\ i < chunks[k].hi

\* C11: clean_text is idempotent: cleaning its own result changes nothing,
\* and the result has no run of two or more spaces.
CleanTextIdempotent ==
    fpc = "cleaned" =>
        /\ clean_text(out) = out
        /\ ~Contains(out, <<" ", " ">>)

\* C12: a query with no keyword left after lowercasing, splitting and
\* stop-word removal gives fast_search an empty result list, on every corpus
\* and filter, and ask then reports no results.
NoKeywordNoResult ==
    Keywords(query.question) = {} =>
        /\ rpc = "iterate" => results = <<>>
        /\ (rpc = "idle" /\ response.kind \in {"answer", "no_results"}) =>
               (response.kind = "no_results" /\ response.sources = <<>>)

\* a search without keywords over a non-empty corpus has returned
SearchedWithoutKeywords ==
    /\ rpc = "idle" /\ response.kind = "no_results"
    /\ Keywords(query.question) = {}
    /\ Len(r_texts) > 0 /\ r_i > Len(r_texts)

\* the source that fast_search returned for the unit with this id, if any
SourcesOf(id) ==
    {k \in 1..Len(response.sources) : heap[response.sources[k].ref].id = id}

\* C13: after one successful initialize on the two-file corpus,
\* ask('What is dharma?', 'All Texts') returns both units, each with a
\* similarity_score > 0 and its own collection_display.
EndToEndDharma ==
    (/\ rpc = "idle" /\ wpc = "idle" /\ builds = 1 /\ cache = DataA
     /\ response.kind \in {"answer", "no_results"}
     /\ query.question = <<"What", " ", "is", " ", "dharma", "?">>
     /\ query.scripture_filter = AllTexts) =>
        /\ Len(response.sources) = 2
        /\ \A k \in 1..Len(response.sources) : response.sources[k].score2 > 0
        /\ \E k \in SourcesOf(<<"ramcharit", "manas", "_", "1", "_", "0">>) :
              response.sources[k].metadata.collection_display = <<"Ramcharit", "manas">>
        /\ \E k \in SourcesOf(<<"valmiki", "_", "1", "_", "0">>) :
              response.sources[k].metadata.collection_display = <<"Valmiki", " ", "Ramayana">>

\* C14: with a scripture_filter F other than 'All Texts' every result belongs
\* to a unit whose collection_display contains F case-insensitively; with
\* 'All Texts' every unit read with a positive score is among the results.
FilterRespected ==
    (rpc = "iterate" \/ (rpc = "idle" /\ response.kind \in {"answer", "no_results"})) =>
        /\ query.scripture_filter # AllTexts =>
              /\ \A k \in 1..Len(results) :
                    Contains(Lower(results[k].metadata.collection_display),
                             Lower(query.scripture_filter))
              /\ rpc = "idle" =>
                    \A k \in 1..Len(response.sources) :
                        Contains(Lower(response.sources[k].metadata.collection_display),
                                 Lower(query.scripture_filter))
        /\ (query.scripture_filter = AllTexts /\ ~seen_raw) =>
              \A i \in 1..Min(r_i - 1, Len(r_texts)) :
                  LET item == heap[r_texts[i]]
                  IN (/\ Strip(item.search_text) # <<>>
                      /\ \E kw \in Keywords(query.question) : Contains(item.search_text, kw)) =>
                         \E k \in 1..Len(results) : results[k].ref = r_texts[i]

\* a search with a filter has left out a unit that matches the question
FilterExcludedAMatch ==
    /\ rpc = "idle" /\ response.kind = "answer" /\ query.scripture_filter # AllTexts
    /\ \E i \in 1..Len(r_texts) :
          LET item == heap[r_texts[i]]
          IN /\ item.has_search_text
             /\ \E kw \in Keywords(query.question) : Contains(item.search_text, kw)
             /\ ~Contains(Lower(item.metadata.collection_display), Lower(query.scripture_filter))
             /\ \A k \in 1..Len(response.sources) : response.sources[k].ref # r_texts[i]

\* C15: both inference functions return, for every filename, the display name
\* of the first row of the priority table (ramcharitmanas|ramcharit, valmiki,
\* bhagavad|gita, ramayana, mahabharata, rigveda|rig_veda, yajurveda|yajur_veda,
\* atharvaveda|atharva_veda) with a keyword in the lowercased filename, and
\* 'Other Texts' when no row has one.
InferenceFollowsTable ==
    fpc = "inferred" =>
        LET has(words) == \E w \in words : Contains(Lower(arg), w)
            table ==
                IF has({<<"ramcharit", "manas">>, <<"ramcharit">>}) THEN <<"Ramcharit", "manas">>
                ELSE IF has({<<"valmiki">>}) THEN <<"Valmiki", " ", "Ramayana">>
                ELSE IF has({<<"bhagavad">>, <<"gita">>}) THEN <<"Bhagavad", " ", "Gita">>
                ELSE IF has({<<"ramayana">>}) THEN <<"Ramayana">>
                ELSE IF has({<<"mahabharata">>}) THEN <<"Mahabharata">>
                ELSE IF has({<<"rig", "veda">>, <<"rig", "_", "veda">>}) THEN <<"Rigveda">>
                ELSE IF has({<<"yajur", "veda">>, <<"yajur", "_", "veda">>}) THEN <<"Yajurveda">>
                ELSE IF has({<<"atharva", "veda">>, <<"atharva", "_", "veda">>})
                     THEN <<"Atharvaveda">>
                ELSE <<"Other", " ", "Texts">>
        IN out[1] = table /\ out[2] = table

\* C18: loading an archive loses no valid file: the loaded mapping has as many
\* entries as the archive has valid JSON files, and every valid file's data is
\* the value of some key.
NoFileLost ==
    (fpc \in {"loaded", "drive_loaded"} /\ arg.status = "ok") =>
        LET valid_files == {i \in 1..Len(arg.files) : arg.files[i].valid}
        IN /\ Len(out) = Cardinality(valid_files)
           /\ \A i \in valid_files : \E k \in 1..Len(out) : out[k].data = arg.files[i].data

\* C19: the loader's outcome for an archive that was read and holds no valid
\* JSON file differs from its outcome when the source could not be read
\* (network error, invalid archive, unexpected exception).
EmptyCorpusDistinctFromFailure ==
    (/\ fpc \in {"loaded", "drive_loaded"} /\ arg.status = "ok"
     /\ \A i \in 1..Len(arg.files) : ~arg.files[i].valid) =>
        \A st \in FailedStatuses :
            LET failed == [status |-> st, files |-> <<>>]
            IN out # (IF fpc = "loaded" THEN load_all_scripture_data(failed)
                      ELSE drive_load_all_scripture_data(failed))

\* C16: all units produced by the conversion of a mapping of pairwise distinct
\* filenames have pairwise distinct, non-empty ids.
UnitIdsUnique ==
    fpc \in {"rag_formatted", "converted"} =>
        /\ \A k \in 1..Len(out) : out[k].id # <<>>
        /\ \A j, k \in 1..Len(out) : out[j].id = out[k].id => j = k

\* the parsed value a unit was made from
RawOf(u) ==
    LET f == CHOOSE g \in SeqToSet(arg) : g.name = u.metadata.source_file
    IN IF f.json.kind = "list" THEN f.json.items[u.metadata.item_index + 1] ELSE f.json

\* C17: every unit has a non-empty collection and a non-empty content mapping;
\* a record with none of the recognised text fields gets a 'text' entry holding
\* its stringified raw value, on the loader path and the orchestrator path.
ContentNeverEmpty ==
    fpc \in {"rag_formatted", "converted"} =>
        \A k \in 1..Len(out) :
            /\ IF fpc = "converted" THEN out[k].metadata.collection # ""
               ELSE out[k].metadata.collection # <<>>
            /\ DOMAIN out[k].content # {}
            /\ (RawOf(out[k]).kind = "dict"
                   /\ DOMAIN RawOf(out[k]).fields \cap TextFields = {}) =>
                  /\ "text" \in DOMAIN out[k].content
                  /\ out[k].content.text = StrOf(RawOf(out[k]))

\* C20: a file whose value is a dict with a 'verses' or 'shlokas' list of n
\* elements yields n units, numbered in list order, as a top-level list does;
\* a dict without those keys or a scalar yields one unit.
VersesBecomeUnits ==
    fpc \in {"rag_formatted", "converted"} =>
        \A i \in 1..Len(arg) :
            LET mine == SelectSeq(out, LAMBDA u : u.metadata.source_file = arg[i].name)
                n == IF arg[i].json.kind = "scalar" THEN 1 ELSE count_verses(arg[i].json)
            IN /\ Len(mine) = n
               /\ \A k \in 1..Len(mine) : mine[k].metadata.item_index = k - 1

\* C21: search_similar returns at most k results, in non-increasing order of
\* similarity_score, every one of them with a score >= SIMILARITY_THRESHOLD.
SearchSimilarBounded ==
    fpc = "searched" =>
        /\ Len(out) <= arg.k
        /\ \A i \in 1..Len(out) :
              /\ out[i].similarity_score >= SIMILARITY_THRESHOLD
              /\ out[i].similarity_score =
                     Dot(arg.embeddings[out[i].idx], arg.query_embedding)
        /\ \A i, j \in 1..Len(out) :
              i < j => out[i].similarity_score >= out[j].similarity_score

\* a search that returned k results and left out a chunk above the threshold
SearchFilledK ==
    /\ fpc = "searched" /\ arg.k = MaxK /\ Len(out) = MaxK
    /\ \E i \in 1..Len(arg.embeddings) :
          /\ Dot(arg.embeddings[i], arg.query_embedding) >= SIMILARITY_THRESHOLD
          /\ \A j \in 1..Len(out) : out[j].idx # i

\* C28: results of search_similar with equal scores are in chunk insertion
\* order, and of equal scores across the top-k cut the smaller indices are kept.
TiesInInsertionOrder ==
    fpc = "searched" =>
        /\ \A i, j \in 1..Len(out) :
              (i < j /\ out[i].similarity_score = out[j].similarity_score) =>
                  out[i].idx < out[j].idx
        /\ \A i \in 1..Len(out) : \A m \in 1..Len(arg.embeddings) :
              (/\ Dot(arg.embeddings[m], arg.query_embedding) = out[i].similarity_score
               /\ \A j \in 1..Len(out) : out[j].idx # m) =>
                  out[i].idx < m

\* C24: a successful rebuild_index() that directly follows a successful
\* rebuild_index() from Ready, with the same corpus loaded, leaves the
\* orchestrator Ready with the get_system_stats of before (same number of
\* texts, same per-collection counts).
RebuildIdempotent ==
    (/\ wpc = "idle" /\ wop = "rebuild_index" /\ wret = "True"
     /\ pre_state.wop = "rebuild_index" /\ pre_state.wret = "True"
     /\ pre_state.stats.status = "Initialized"
     /\ cache = pre_state.corpus) =>
        /\ is_initialized
        /\ get_system_stats = pre_state.stats

\* the second of two successful rebuilds of a two-unit corpus has returned
RebuiltTwice ==
    /\ wpc = "idle" /\ wop = "rebuild_index" /\ wret = "True" /\ builds = 2
    /\ pre_state.wop = "rebuild_index" /\ pre_state.wret = "True"
    /\ pre_state.stats.status = "Initialized"
    /\ cache = pre_state.corpus
    /\ get_system_stats.total_texts = 2

\* C22: load_embeddings returns persisted data, and load_index reports a
\* loaded index, only when the stored model_name and dimension are those of
\* the currently configured embedding model.
ReloadVerifiesModel ==
    /\ (fpc = "loaded_embeddings" /\ out[1] # NoneResult) =>
          /\ metadata_file.model_name = model_name
          /\ metadata_file.embedding_dim = EmbeddingDim(model_name)
          /\ out[1].dim = EmbeddingDim(model_name)
    /\ (fpc = "loaded_index" /\ out[1] = TRUE) => out[2] = EmbeddingDim(model_name)

\* C23: a load that returns data returns a vector array and a text list of
\* equal length written by the same save.
LoadedArtifactsBelongTogether ==
    (fpc = "loaded_embeddings" /\ out[1] # NoneResult) =>
        /\ out[2] # NoneResult
        /\ out[1].save = out[2].save
        /\ out[1].rows = out[2].num_texts

\* C25: for a text with a Devanagari code point detect_language returns
\* 'sanskrit' when the text holds a Sanskrit marker (shloka, mantra, om, double
\* danda) and 'hindi' otherwise, whatever the detector did; without Devanagari
\* it returns the detector's code, 'en' as 'english'.
ScriptDecidesLanguage ==
    fpc = "detected" =>
        LET markers == {"hi:shloka", "hi:mantra", "hi:om", "hi:double_danda"}
        IN IF HasDevanagari(arg)
           THEN out[2] = (IF \E i \in 1..Len(arg) : arg[i] \in markers
                          THEN "sanskrit" ELSE "hindi")
           ELSE out[1] # "raise" => out[2] = (IF out[1] = "en" THEN "english" ELSE out[1])

\* C30: for a raw query without a Devanagari code point process_query reports
\* the detector's language ('english' for en), never 'hindi' or 'sanskrit'.
QueryLanguageIsTheUsers ==
    (fpc = "processed" /\ ~HasDevanagari(arg)) =>
        /\ out[2] \notin {"hindi", "sanskrit"}
        /\ out[1] # "raise" => out[2] = (IF out[1] = "en" THEN "english" ELSE out[1])

\* C26: every result of fast_search has score2 / 2 = (number of keywords that
\* are substrings of the unit's search text) + 0.5 x (number of keywords that
\* are a whole word of it, a word followed by punctuation counting as the
\* word), similarity_score being that over the number of keywords, and is > 0.
ScoreCountsWholeWords ==
    (rpc = "iterate" \/ (rpc = "idle" /\ response.kind \in {"answer", "no_results"})) =>
        \A n \in 1..Len(results) :
            LET text == heap[results[n].ref].search_text
                kws == Keywords(query.question)
                punctuation == {".", ",", "?", "!", "hi:danda"}
                is_word(kw, w) ==
                    /\ Len(kw) <= Len(w) /\ SubSeq(w, 1, Len(kw)) = kw
                    /\ \A i \in (Len(kw) + 1)..Len(w) : w[i] \in punctuation
                sub == {kw \in kws : Contains(text, kw)}
                whole == {kw \in kws : \E w \in SeqToSet(Split(text)) : is_word(kw, w)}
            IN /\ results[n].score2 = 2 * Cardinality(sub) + Cardinality(whole)
               /\ results[n].nkeys = Cardinality(kws)
               /\ results[n].score2 > 0

\* C27: fast_search returns the first max_results matching units in the order
\* similarity_score descending, then match_count descending, then corpus
\* order; no unit left out ranks strictly above a returned one.
ReturnedInRankOrder ==
    fpc = "ranked" =>
        LET above(a, b) ==
                \/ a.score2 > b.score2
                \/ a.score2 = b.score2 /\ a.match_count > b.match_count
                \/ a.score2 = b.score2 /\ a.match_count = b.match_count /\ a.ref < b.ref
            left_out == {a \in SeqToSet(arg) : \A j \in 1..Len(out) : out[j] # a}
        IN /\ Len(out) = Min(MaxResults, Len(arg))
           /\ \A i \in 1..Len(out) : out[i] \in SeqToSet(arg)
           /\ \A i, j \in 1..Len(out) : i < j => above(out[i], out[j])
           /\ \A a \in left_out : \A j \in 1..Len(out) : above(out[j], a)

\* more matching units than max_results were ranked, two of them with equal
\* score and the later one with the larger match_count
RankedBeyondMaxResults ==
    /\ fpc = "ranked" /\ Len(arg) > MaxResults /\ Len(out) = MaxResults
    /\ \E i, j \in 1..Len(arg) :
          /\ i < j /\ arg[i].score2 = arg[j].score2
          /\ arg[i].match_count < arg[j].match_count
    /\ \E i, j \in 1..Len(arg) :
          /\ i < j /\ arg[i].score2 = arg[j].score2 /\ arg[i].match_count = arg[j].match_count
          /\ \E k \in 1..Len(out) : out[k] = arg[i]
          /\ \A k \in 1..Len(out) : out[k] # arg[j]

\* C29: for two consecutive chunks of a unit, other than the pair ending in
\* the last chunk, the last chunk_overlap characters of the earlier chunk_text
\* are the first chunk_overlap characters of the later one. A pair is taken
\* when a chunk follows it and its later slice stops before the end of the text.
ConsecutiveChunksOverlap ==
    FullLen(unit) > CHUNK_SIZE =>
        \A k \in 1..(Len(chunks) - 1) :
            ((k + 1 < Len(chunks) \/ overflow) /\ chunks[k + 1].end < FullLen(unit)) =>
                /\ chunks[k].hi - chunks[k].lo >= CHUNK_OVERLAP
                /\ chunks[k + 1].hi - chunks[k + 1].lo >= CHUNK_OVERLAP
                /\ TextOf(unit, chunks[k].hi - CHUNK_OVERLAP, chunks[k].hi)
                      = TextOf(unit, chunks[k + 1].lo, chunks[k + 1].lo + CHUNK_OVERLAP)

====
